---- MODULE Spec2Model ----
(***************************************************************************)
(* Model of drvAsynIsegVds.cpp: the asyn port driver of the ISEG VDS VME   *)
(* high-voltage module.  The driver owns two static lookup tables from     *)
(* parameter identifiers to register offsets and four entry points that    *)
(* turn an asyn read/write into one A16/D32 access of the VME library.     *)
(*                                                                         *)
(* Floating point values are counted in units of 2^-149, the spacing of    *)
(* the IEEE-754 single precision denormals: the 32-bit word w < 2^23 read  *)
(* as a float is w * 2^-149, so for the small words enumerated here the    *)
(* union float_t maps the register word w to the value w (in these units). *)
(***************************************************************************)
EXTENDS Integers, Sequences, FiniteSets, TLC

\* ------------------------------------------------------------------ bounds
\* Register words, masks and integer values are drawn from 0..MaxData.
MaxData == 2
\* Number of entry point calls explored in one behaviour.
MaxCalls == 2

\* ------------------------------------------------- parameter identifiers
\* createParam hands out consecutive indices in the order of the calls.
P_ModStatus        == 0
P_ModEvtStatus     == 1
P_ModEvtMask       == 2
P_ModCtrl          == 3
P_ModEvtChanStatus == 4
P_ModEvtChanMask   == 5
P_ModEvtGrpStatus  == 6
P_ModEvtGrpMask    == 7
P_VRamp            == 8
P_CRamp            == 9
P_VMax             == 10
P_IMax             == 11
P_SupplyP5         == 12
P_SupplyP12        == 13
P_SupplyN12        == 14
P_Temperature      == 15
P_ChanStatus       == 16
P_ChanEvtStatus    == 17
P_ChanEvtMask      == 18
P_ChanCtrl         == 19
P_ChanVset         == 20
P_ChanIset         == 21
P_ChanVmom         == 22
P_ChanImom         == 23
P_ChanVBounds      == 24
P_ChanIBounds      == 25

\* Number of parameters created by the constructor (NUM_ISEGVDS_PARAMS).
NumParams == P_ChanIBounds + 1

\* maxAddr handed to the asynPortDriver constructor.
maxAddr == 8

\* asynParamType of every created parameter.
ParamType(function) ==
  IF function \in (P_ModStatus..P_ModEvtGrpMask) \cup (P_ChanStatus..P_ChanCtrl)
  THEN "asynParamUInt32Digital"
  ELSE "asynParamFloat64"

\* static const epicsUInt32 chanAddr[8]; TLA+ tuples are indexed from 1.
chanAddrTable == << 256, 320, 384, 448, 512, 576, 640, 704 >>

chanAddr(addr) == chanAddrTable[addr + 1]

\* _modcmds as filled by the constructor.
modcmds ==
  [ f \in P_ModStatus..P_Temperature |->
      CASE f = P_ModStatus        -> 0
        [] f = P_ModEvtStatus     -> 4
        [] f = P_ModEvtMask       -> 8
        [] f = P_ModCtrl          -> 12
        [] f = P_ModEvtChanStatus -> 16
        [] f = P_ModEvtChanMask   -> 20
        [] f = P_ModEvtGrpStatus  -> 24
        [] f = P_ModEvtGrpMask    -> 28
        [] f = P_VRamp            -> 32
        [] f = P_CRamp            -> 36
        [] f = P_VMax             -> 40
        [] f = P_IMax             -> 44
        [] f = P_SupplyP5         -> 64
        [] f = P_SupplyP12        -> 68
        [] f = P_SupplyN12        -> 72
        [] f = P_Temperature      -> 76 ]

\* _chancmds as filled by the constructor.
chancmds ==
  [ f \in P_ChanStatus..P_ChanIBounds |->
      CASE f = P_ChanStatus    -> 0
        [] f = P_ChanEvtStatus -> 4
        [] f = P_ChanEvtMask   -> 8
        [] f = P_ChanCtrl      -> 12
        [] f = P_ChanVset      -> 16
        [] f = P_ChanIset      -> 20
        [] f = P_ChanVmom      -> 24
        [] f = P_ChanImom      -> 28
        [] f = P_ChanVBounds   -> 32
        [] f = P_ChanIBounds   -> 36 ]

\* The result of a failed lookup in both maps.
NotFound == -1

\* A variant that adds the channel base for module parameters too.
LookupVmeAddrAlwaysChan(function, addr) ==
  IF function \in DOMAIN modcmds THEN chanAddr(addr) + modcmds[function]
  ELSE IF function \in DOMAIN chancmds THEN chanAddr(addr) + chancmds[function]
  ELSE NotFound

\* A variant that looks up with operator[]: an unknown key yields offset 0.
LookupVmeAddrDefaultZero(function, addr) ==
  IF function \in DOMAIN modcmds THEN modcmds[function]
  ELSE IF function \in DOMAIN chancmds THEN chanAddr(addr) + chancmds[function]
  ELSE 0

\* The address computation shared by the four entry points:
\*   it = _modcmds.find(function);
\*   if (end) { it = _chancmds.find(function); if (end) return asynError;
\*              vmeAddr += chanAddr[addr]; }
\*   vmeAddr += it->second;
LookupVmeAddr(function, addr) ==
  IF function \in DOMAIN modcmds THEN modcmds[function]
  ELSE IF function \in DOMAIN chancmds THEN chanAddr(addr) + chancmds[function]
  ELSE NotFound


\* ------------------------------------------------------------ asynStatus
asynSuccess        == "asynSuccess"
asynError          == "asynError"
asynParamWrongType == "asynParamWrongType"
asynParamUndefined == "asynParamUndefined"

\* ----------------------------------------------------- 32-bit bit operations
RECURSIVE BitAnd(_, _)
BitAnd(a, b) ==
  IF a = 0 \/ b = 0 THEN 0
  ELSE (a % 2) * (b % 2) + 2 * BitAnd(a \div 2, b \div 2)

RECURSIVE BitOr(_, _)
BitOr(a, b) ==
  IF a = 0 THEN b
  ELSE IF b = 0 THEN a
  ELSE (IF a % 2 = 1 \/ b % 2 = 1 THEN 1 ELSE 0) + 2 * BitOr(a \div 2, b \div 2)

\* d & (v | ~m): clears in d the bits that are clear in v and set in m.
RECURSIVE BitClear(_, _, _)
BitClear(d, v, m) ==
  IF d = 0 THEN 0
  ELSE (IF d % 2 = 1 /\ (v % 2 = 1 \/ m % 2 = 0) THEN 1 ELSE 0)
       + 2 * BitClear(d \div 2, v \div 2, m \div 2)

\* ------------------------------------------------------------ float_t union
\* data.ival = vmeData; ... data.fval: the word read as a single precision
\* float, in units of 2^-149 (exact for the denormal words w < 2^23).
FvalOfIval(w) == w

\* vmeData.fval = (epicsFloat32)value; ... vmeData.ival: the float's word.
IvalOfFval(x) == x

\* The factor 1.e6 between A and uA.
Micro == 1000000

\* data.fval *= 1.e6 in readFloat64 for P_ChanImom and P_ChanIset; exact as
\* long as the product stays a denormal or a 24-bit significand.
ScaleRead(function, fval) ==
  IF function = P_ChanImom \/ function = P_ChanIset THEN fval * Micro ELSE fval

\* vmeData.fval *= 1.e-6 in writeFloat64 for P_ChanIset, rounded to the nearest
\* float; the double 1.e-6 lies below 10^-6, so an exact half rounds down.
ScaleWrite(function, fval) ==
  IF function = P_ChanIset
  THEN (fval \div Micro) + (IF 2 * (fval % Micro) > Micro THEN 1 ELSE 0)
  ELSE fval

\* --------------------------------------------- asynPortDriver parameter table
\* The parameter library is a function from the defined entries <<list, index>>
\* to their values; an entry outside its domain is undefined.
EmptyTbl == [ k \in {} |-> 0 ]

Store(tbl, key, v) ==
  [ k \in DOMAIN tbl \cup {key} |-> IF k = key THEN v ELSE tbl[k] ]

OldUInt(tbl, key) == IF key \in DOMAIN tbl THEN tbl[key] ELSE 0

\* The value setUIntDigitalParam leaves in the entry:
\*   uval |= (value & mask); uval &= (value | ~mask).
MaskedStore(old, value, mask) ==
  BitClear(BitOr(old, BitAnd(value, mask)), value, mask)

\* A caching variant: an entry that is defined keeps its word.
setUIntDigitalParamKeepFirst(tbl, chg, addr, function, value, mask) ==
  IF ParamType(function) # "asynParamUInt32Digital"
  THEN [ status |-> asynParamWrongType, tbl |-> tbl, chg |-> chg ]
  ELSE LET key == << addr, function >>
       IN IF key \in DOMAIN tbl
          THEN [ status |-> asynSuccess, tbl |-> tbl, chg |-> chg ]
          ELSE [ status |-> asynSuccess,
                 tbl    |-> Store(tbl, key, BitAnd(value, mask)),
                 chg    |-> chg \cup {key} ]

\* setUIntDigitalParam(addr, function, value, mask) as called by the driver.
setUIntDigitalParam(tbl, chg, addr, function, value, mask) ==
  IF ParamType(function) # "asynParamUInt32Digital"
  THEN [ status |-> asynParamWrongType, tbl |-> tbl, chg |-> chg ]
  ELSE LET key == << addr, function >>
           new == MaskedStore(OldUInt(tbl, key), value, mask)
       IN [ status |-> asynSuccess,
            tbl    |-> Store(tbl, key, new),
            chg    |-> IF key \notin DOMAIN tbl \/ tbl[key] # new
                       THEN chg \cup {key} ELSE chg ]

\* getUIntDigitalParam(addr, function, value, mask) as called by the driver.
getUIntDigitalParam(tbl, addr, function, mask) ==
  IF ParamType(function) # "asynParamUInt32Digital"
  THEN [ status |-> asynParamWrongType, hasValue |-> FALSE, value |-> 0 ]
  ELSE IF << addr, function >> \notin DOMAIN tbl
  THEN [ status |-> asynParamUndefined, hasValue |-> FALSE, value |-> 0 ]
  ELSE [ status |-> asynSuccess, hasValue |-> TRUE,
         value |-> BitAnd(tbl[<< addr, function >>], mask) ]

\* setDoubleParam(addr, function, value) as called by the driver.
setDoubleParam(tbl, chg, addr, function, value) ==
  IF ParamType(function) # "asynParamFloat64"
  THEN [ status |-> asynParamWrongType, tbl |-> tbl, chg |-> chg ]
  ELSE LET key == << addr, function >>
       IN [ status |-> asynSuccess,
            tbl    |-> Store(tbl, key, value),
            chg    |-> IF key \notin DOMAIN tbl \/ tbl[key] # value
                       THEN chg \cup {key} ELSE chg ]

\* getDoubleParam(addr, function, value) as called by the driver.
getDoubleParam(tbl, addr, function) ==
  IF ParamType(function) # "asynParamFloat64"
  THEN [ status |-> asynParamWrongType, hasValue |-> FALSE, value |-> 0 ]
  ELSE IF << addr, function >> \notin DOMAIN tbl
  THEN [ status |-> asynParamUndefined, hasValue |-> FALSE, value |-> 0 ]
  ELSE [ status |-> asynSuccess, hasValue |-> TRUE,
         value |-> tbl[<< addr, function >>] ]

\* callParamCallbacks(addr, addr): the callbacks of the changed entries of list
\* addr are issued and their changed flags cleared; cbStatus is the status the
\* library reports.
callParamCallbacks(chg, addr, cbStatus) ==
  [ status |-> cbStatus,
    chg    |-> IF cbStatus = asynSuccess
               THEN { k \in chg : k[1] # addr } ELSE chg ]

\* getAddress(pasynUser, &addr): the address the user is connected with, -1
\* (no device) taken as 0, refused above maxAddr-1.
getAddress(addrIn) ==
  LET a == IF addrIn = -1 THEN 0 ELSE addrIn
  IN [ status |-> IF a > maxAddr - 1 THEN asynError ELSE asynSuccess,
       addr   |-> a ]


\* ------------------------------------------------------------ VmeMaster
\* One access of the VME library as seen on the bus.
Access(op, b, vmeAddr, data) ==
  [ op |-> op, base |-> b, offset |-> vmeAddr, data |-> data ]

\* A retrying variant of the read: a second access after a VmeException.
TryReadRetry(b, vmeAddr, hw) ==
  [ bus   |-> IF hw.threw
              THEN << Access("read", b, vmeAddr, 0), Access("read", b, vmeAddr, 0) >>
              ELSE << Access("read", b, vmeAddr, hw.data) >>,
    threw |-> hw.threw,
    data  |-> hw.data ]

\* try { vmeData = _vme->readRegisterA16D32(_base, vmeAddr); } catch (VmeException&)
\* hw is what the hardware does with the access: it raises, or it delivers data.
TryRead(b, vmeAddr, hw) ==
  [ bus   |-> << Access("read", b, vmeAddr, IF hw.threw THEN 0 ELSE hw.data) >>,
    threw |-> hw.threw,
    data  |-> hw.data ]

\* A variant whose catch block does not leave the entry point.
TryWriteSwallow(b, vmeAddr, word, hw) ==
  [ bus   |-> << Access("write", b, vmeAddr, word) >>,
    threw |-> FALSE ]

\* try { _vme->writeRegisterA16D32(_base, vmeAddr, value); } catch (VmeException&)
TryWrite(b, vmeAddr, word, hw) ==
  [ bus   |-> << Access("write", b, vmeAddr, word) >>,
    threw |-> hw.threw ]

\* ------------------------------------------------------- read-only checks
\* A variant that forgets the channel status.
IsReadOnlyUInt32ModOnly(function) == function = P_ModStatus

\* writeUInt32Digital: "Return if function is a read-only parameter".
IsReadOnlyUInt32(function) ==
  function = P_ModStatus \/ function = P_ChanStatus

\* writeFloat64: "Return if function is a read-only parameter".
IsReadOnlyFloat64(function) ==
  \/ function = P_VMax
  \/ function = P_IMax
  \/ function = P_SupplyP5
  \/ function = P_SupplyP12
  \/ function = P_SupplyN12
  \/ function = P_Temperature
  \/ function = P_ChanVmom
  \/ function = P_ChanImom

\* ------------------------------------------------------------------ state
VARIABLES
  base,        \* _base, the base address given at construction
  paramTbl,    \* the parameter library: defined entries and their values
  changed,     \* entries whose callbacks are pending
  tblAtEntry,  \* paramTbl and changed when the last call was entered
  call,        \* what the last call of an entry point did and returned
  ncalls       \* number of calls made so far

vars == << base, paramTbl, changed, tblAtEntry, call, ncalls >>

\* What an entry point leaves behind: the status it returns, the parameter
\* library, the accesses it made, whether it wrote pasynUser->errorMessage,
\* *value, pasynUser->timestamp, whether it called callParamCallbacks, and the
\* status of its getAddress ("notCalled" when it returned before).
Outcome(status, tbl, chg, bus, err, hasValue, value, ts, cb, ga) ==
  [ status |-> status, tbl |-> tbl, chg |-> chg, bus |-> bus, err |-> err,
    hasValue |-> hasValue, value |-> value, ts |-> ts, cb |-> cb, ga |-> ga ]

\* An early return that has touched nothing.
Untouched(status, ga) ==
  Outcome(status, paramTbl, changed, << >>, FALSE, FALSE, 0, FALSE, FALSE, ga)

\* The catch block: errorMessage is written and asynError returned.
Caught(bus) ==
  Outcome(asynError, paramTbl, changed, bus, TRUE, FALSE, 0, FALSE, FALSE, asynSuccess)

\* The record of a port on which no call is in progress.
NoCall ==
  [ entry |-> "none", function |-> 0, addrIn |-> 0, mask |-> 0, valueIn |-> 0,
    hw |-> [ threw |-> FALSE, data |-> 0 ], cbStatus |-> asynSuccess,
    status |-> asynSuccess, bus |-> << >>, err |-> FALSE, hasValue |-> FALSE,
    value |-> 0, ts |-> FALSE, cb |-> FALSE, ga |-> "notCalled" ]

\* The call returns: the state takes the outcome r.  The port is locked while
\* an entry point runs, so calls do not overlap.
Return(entry, function, addrIn, mask, valueIn, hw, cbStatus, r) ==
  /\ ncalls' = ncalls + 1
  /\ base' = base
  /\ tblAtEntry' = [ tbl |-> paramTbl, chg |-> changed ]
  /\ paramTbl' = r.tbl
  /\ changed' = r.chg
  /\ call' = [ entry |-> entry, function |-> function, addrIn |-> addrIn,
               mask |-> mask, valueIn |-> valueIn, hw |-> hw,
               cbStatus |-> cbStatus,
               status |-> r.status, bus |-> r.bus, err |-> r.err,
               hasValue |-> r.hasValue, value |-> r.value, ts |-> r.ts,
               cb |-> r.cb, ga |-> r.ga ]

\* The client has taken the result; the asynUser and the out-parameters of the
\* call are gone and the port is free for the next call.
Idle ==
  /\ call.entry # "none"
  /\ call' = NoCall
  /\ tblAtEntry' = [ tbl |-> EmptyTbl, chg |-> {} ]
  /\ UNCHANGED << base, paramTbl, changed, ncalls >>

\* ------------------------------------------------------------ entry points
\* drvAsynIsegVds::readUInt32Digital(pasynUser, value, mask)
readUInt32Digital(function, addrIn, mask, hw) ==
  LET ga      == getAddress(addrIn)
      vmeAddr == LookupVmeAddr(function, ga.addr)
      t       == TryRead(base, vmeAddr, hw)
      s       == setUIntDigitalParam(paramTbl, changed, ga.addr, function, t.data, mask)
      g       == getUIntDigitalParam(s.tbl, ga.addr, function, mask)
      r       == IF ga.status # asynSuccess THEN Untouched(ga.status, ga.status)
                 ELSE IF vmeAddr = NotFound THEN Untouched(asynError, ga.status)
                 ELSE IF t.threw THEN Caught(t.bus)
                 ELSE Outcome(g.status, s.tbl, s.chg, t.bus, g.status # asynSuccess,
                              g.hasValue, g.value, TRUE, FALSE, ga.status)
  IN Return("readUInt32Digital", function, addrIn, mask, 0, hw, asynSuccess, r)

\* drvAsynIsegVds::writeUInt32Digital(pasynUser, value, mask)
writeUInt32Digital(function, addrIn, value, mask, hw, cbStatus) ==
  LET ga      == getAddress(addrIn)
      vmeAddr == LookupVmeAddr(function, ga.addr)
      t       == TryWrite(base, vmeAddr, value, hw)
      s       == setUIntDigitalParam(paramTbl, changed, ga.addr, function, value, mask)
      c       == callParamCallbacks(s.chg, ga.addr, cbStatus)
      r       == IF IsReadOnlyUInt32(function) THEN Untouched(asynSuccess, "notCalled")
                 ELSE IF ga.status # asynSuccess THEN Untouched(ga.status, ga.status)
                 ELSE IF vmeAddr = NotFound THEN Untouched(asynError, ga.status)
                 ELSE IF t.threw THEN Caught(t.bus)
                 ELSE Outcome(c.status, s.tbl, c.chg, t.bus, c.status # asynSuccess,
                              FALSE, 0, FALSE, TRUE, ga.status)
  IN Return("writeUInt32Digital", function, addrIn, mask, value, hw, cbStatus, r)

\* drvAsynIsegVds::readFloat64(pasynUser, value)
readFloat64(function, addrIn, hw) ==
  LET ga      == getAddress(addrIn)
      vmeAddr == LookupVmeAddr(function, ga.addr)
      t       == TryRead(base, vmeAddr, hw)
      fval    == ScaleRead(function, FvalOfIval(t.data))
      s       == setDoubleParam(paramTbl, changed, ga.addr, function, fval)
      g       == getDoubleParam(s.tbl, ga.addr, function)
      r       == IF ga.status # asynSuccess THEN Untouched(ga.status, ga.status)
                 ELSE IF vmeAddr = NotFound THEN Untouched(asynError, ga.status)
                 ELSE IF t.threw THEN Caught(t.bus)
                 ELSE Outcome(g.status, s.tbl, s.chg, t.bus, g.status # asynSuccess,
                              g.hasValue, g.value, TRUE, FALSE, ga.status)
  IN Return("readFloat64", function, addrIn, 0, 0, hw, asynSuccess, r)

\* drvAsynIsegVds::writeFloat64(pasynUser, value)
writeFloat64(function, addrIn, value, hw, cbStatus) ==
  LET ga      == getAddress(addrIn)
      vmeAddr == LookupVmeAddr(function, ga.addr)
      word    == IvalOfFval(ScaleWrite(function, value))
      t       == TryWrite(base, vmeAddr, word, hw)
      s       == setDoubleParam(paramTbl, changed, ga.addr, function, value)
      c       == callParamCallbacks(s.chg, ga.addr, cbStatus)
      r       == IF IsReadOnlyFloat64(function) THEN Untouched(asynSuccess, "notCalled")
                 ELSE IF ga.status # asynSuccess THEN Untouched(ga.status, ga.status)
                 ELSE IF vmeAddr = NotFound THEN Untouched(asynError, ga.status)
                 ELSE IF t.threw THEN Caught(t.bus)
                 ELSE Outcome(c.status, s.tbl, c.chg, t.bus, FALSE,
                              FALSE, 0, FALSE, TRUE, ga.status)
  IN Return("writeFloat64", function, addrIn, 0, value, hw, cbStatus, r)

\* ------------------------------------------------------------------ inputs
Words == 0..MaxData

\* What the hardware does with a read: it raises, or it delivers a word.
HwReads(W) == { [ threw |-> FALSE, data |-> d ] : d \in W }
                \cup { [ threw |-> TRUE, data |-> 0 ] }

\* What the hardware does with a write: it raises, or it takes the word.
HwWrites == { [ threw |-> b, data |-> 0 ] : b \in BOOLEAN }

\* What a write meets: the hardware's answer and, when the write went through,
\* the status callParamCallbacks reports.
WriteEnvs ==
  { e \in [ hw : HwWrites, cbStatus : { asynSuccess, asynError } ] :
      e.hw.threw => e.cbStatus = asynSuccess }

\* The doubles a client writes: small ones, and whole multiples of 10^6.
Doubles(W) == W \cup { w * Micro : w \in W }

\* Base addresses the module may be configured with.
BaseAddrs == { 16384, 32768 }

\* Every reason a client can pass: the created parameters and two that are not.
AllFunctions == -1..NumParams

\* Every address a client can be connected with: -1 (no device), the eight
\* channels, and one beyond.
AllAddrs == -1..maxAddr

\* One parameter of each kind the entry points tell apart, and an unknown one.
RepFunctions ==
  { P_ModStatus, P_ModCtrl, P_VMax, P_ChanIset, P_ChanImom, NumParams }

RepAddrs == { 0, maxAddr - 1, maxAddr }

\* ------------------------------------------------------------ specification
Init ==
  /\ base \in BaseAddrs
  /\ paramTbl = EmptyTbl
  /\ changed = {}
  /\ tblAtEntry = [ tbl |-> EmptyTbl, chg |-> {} ]
  /\ call = NoCall
  /\ ncalls = 0

CallReadUInt32Digital(F, A, W) ==
  \E function \in F, addrIn \in A, mask \in W, hw \in HwReads(W) :
    readUInt32Digital(function, addrIn, mask, hw)

CallWriteUInt32Digital(F, A, W) ==
  \E function \in F, addrIn \in A, value \in W, mask \in W, e \in WriteEnvs :
    writeUInt32Digital(function, addrIn, value, mask, e.hw, e.cbStatus)

CallReadFloat64(F, A, W) ==
  \E function \in F, addrIn \in A, hw \in HwReads(W) :
    readFloat64(function, addrIn, hw)

CallWriteFloat64(F, A, W) ==
  \E function \in F, addrIn \in A, value \in Doubles(W), e \in WriteEnvs :
    writeFloat64(function, addrIn, value, e.hw, e.cbStatus)

\* The port is free and the bound on the number of calls is not reached.
Free == call.entry = "none" /\ ncalls < MaxCalls

\* Clients call the four entry points in any order with any arguments.
Next ==
  \/ Free /\ CallReadUInt32Digital(RepFunctions, RepAddrs, Words)
  \/ Free /\ CallWriteUInt32Digital(RepFunctions, RepAddrs, Words)
  \/ Free /\ CallReadFloat64(RepFunctions, RepAddrs, Words)
  \/ Free /\ CallWriteFloat64(RepFunctions, RepAddrs, Words)
  \/ Idle

Spec == Init /\ [][Next]_vars

\* The same clients, the last call ranging over every reason and every
\* address with one data word.
WideF == IF ncalls + 1 < MaxCalls THEN RepFunctions ELSE AllFunctions

WideA == IF ncalls + 1 < MaxCalls THEN RepAddrs ELSE AllAddrs

NextAll ==
  \/ Free /\ CallReadUInt32Digital(WideF, WideA, {MaxData})
  \/ Free /\ CallWriteUInt32Digital(WideF, WideA, {MaxData})
  \/ Free /\ CallReadFloat64(WideF, WideA, {MaxData})
  \/ Free /\ CallWriteFloat64(WideF, WideA, {MaxData})
  \/ Idle

SpecAll == Init /\ [][NextAll]_vars


\* ------------------------------------------------------------------ claims
Called == call.entry # "none"

ReadEntries == { "readUInt32Digital", "readFloat64" }

WriteEntries == { "writeUInt32Digital", "writeFloat64" }

\* The channel a call addresses: -1 (no device) stands for channel 0.
Channel == IF call.addrIn = -1 THEN 0 ELSE call.addrIn

KnownFunctions == DOMAIN modcmds \cup DOMAIN chancmds

ReadOnlyUInt32 == { P_ModStatus, P_ChanStatus }

ReadOnlyFloat64 ==
  { P_VMax, P_IMax, P_SupplyP5, P_SupplyP12, P_SupplyN12, P_Temperature,
    P_ChanVmom, P_ChanImom }

\* The call returned at the read-only check of its entry point.
ReadOnlyWrite ==
  \/ call.entry = "writeUInt32Digital" /\ call.function \in ReadOnlyUInt32
  \/ call.entry = "writeFloat64" /\ call.function \in ReadOnlyFloat64

\* The call left the parameter library as it found it.
LibraryUntouched ==
  paramTbl = tblAtEntry.tbl /\ changed = tblAtEntry.chg

\* The register offset of a parameter on a channel as the claim states it.
StatedOffset(function, addr) ==
  IF function \in DOMAIN modcmds THEN modcmds[function]
  ELSE 256 + 64 * addr + chancmds[function]

\* C1: in every entry point and after any earlier calls, each VME access uses
\* the base address given at construction and the register offset fixed by the
\* pair (parameter, channel): the module offset of a module parameter whatever
\* the channel, and 0x0100 + 0x40*addr + the channel offset of a channel
\* parameter, for addr in 0..7.
C1_OffsetFixedByParameterAndChannel ==
  \A i \in 1..Len(call.bus) :
    /\ call.bus[i].base = base
    /\ call.function \in KnownFunctions
    /\ Channel \in 0..7
    /\ call.bus[i].offset = StatedOffset(call.function, Channel)

\* A channel parameter accessed on the last channel after an earlier call has
\* filled the parameter library.
C1_Witness ==
  /\ call.entry = "readFloat64"
  /\ call.function = P_ChanIBounds
  /\ call.addrIn = 7
  /\ tblAtEntry.tbl # EmptyTbl
  /\ Len(call.bus) = 1
  /\ call.bus[1].offset = 740

\* C2: a read entry point that returns asynSuccess has made one register read
\* in that call and returns the data of that read, restricted to the mask
\* (readUInt32Digital) or scaled for the parameter (readFloat64), never a value
\* the parameter library held before.
C2_NoCaching ==
  (call.entry \in ReadEntries /\ call.status = asynSuccess) =>
    /\ Len(call.bus) = 1
    /\ call.bus[1].op = "read"
    /\ ~call.hw.threw
    /\ call.bus[1].data = call.hw.data
    /\ call.hasValue
    /\ call.entry = "readUInt32Digital" =>
         call.value = BitAnd(call.hw.data, call.mask)
    /\ call.entry = "readFloat64" =>
         call.value = IF call.function \in { P_ChanImom, P_ChanIset }
                      THEN call.hw.data * 1000000 ELSE call.hw.data

\* A successful masked read of an entry that held another value under that
\* mask when the call was entered.
C2_Witness ==
  /\ call.entry = "readUInt32Digital"
  /\ call.status = asynSuccess
  /\ << Channel, call.function >> \in DOMAIN tblAtEntry.tbl
  /\ BitAnd(tblAtEntry.tbl[<< Channel, call.function >>], call.mask) # call.value

\* C3: one call makes at most one access of the VME library, also when the
\* access raises; a read entry point only reads and a write entry point only
\* writes.
C3_AtMostOneAccess ==
  /\ Len(call.bus) <= 1
  /\ \A i \in 1..Len(call.bus) :
       /\ call.entry \in ReadEntries => call.bus[i].op = "read"
       /\ call.entry \in WriteEntries => call.bus[i].op = "write"

\* A read whose access raised a VmeException.
C3_Witness ==
  /\ call.entry = "readFloat64"
  /\ call.hw.threw
  /\ Len(call.bus) = 1

\* C4: a call that returns a status other than asynSuccess has written
\* pasynUser->errorMessage.
C4_ErrorMessageOnFailure ==
  (Called /\ call.status # asynSuccess) => call.err

\* C5: a write to a read-only parameter of the entry point returns asynSuccess
\* without a register write, without a change of the parameter library and
\* without callbacks, whatever the address; and no register of a read-only
\* parameter is written through the entry point of its type.
C5_ReadOnlyWriteHasNoEffect ==
  /\ ReadOnlyWrite =>
       /\ call.status = asynSuccess
       /\ call.bus = << >>
       /\ LibraryUntouched
       /\ ~call.cb
       /\ ~call.err
  /\ \A i \in 1..Len(call.bus) :
       /\ call.entry = "writeUInt32Digital" =>
            call.bus[i].offset \notin
              { StatedOffset(f, a) : f \in ReadOnlyUInt32, a \in 0..7 }
       /\ call.entry = "writeFloat64" =>
            call.bus[i].offset \notin
              { StatedOffset(f, a) : f \in ReadOnlyFloat64, a \in 0..7 }

\* A write of a read-only channel parameter on an address beyond the last
\* channel, with the parameter library filled by an earlier call.
C5_Witness ==
  /\ call.entry = "writeUInt32Digital"
  /\ call.function = P_ChanStatus
  /\ call.addrIn = maxAddr
  /\ call.status = asynSuccess
  /\ tblAtEntry.tbl # EmptyTbl

\* C6: when the VME access of a call raises a VmeException the call returns
\* asynError, the parameter library is as before the call, no callbacks are
\* invoked and neither *value nor the timestamp is written.
C6_ExceptionLeavesLibraryAlone ==
  (Called /\ call.hw.threw /\ call.bus # << >>) =>
    /\ call.status = asynError
    /\ LibraryUntouched
    /\ ~call.cb
    /\ ~call.hasValue
    /\ ~call.ts

\* A write whose access raised, entered with a filled parameter library.
C6_Witness ==
  /\ call.entry = "writeUInt32Digital"
  /\ call.hw.threw
  /\ call.bus # << >>
  /\ tblAtEntry.tbl # EmptyTbl

\* C7: a call whose reason is in neither table returns asynError, and a call
\* whose address lookup fails returns that failure; neither makes a VME
\* access nor changes the parameter library.
C7_UnknownReasonOrAddress ==
  /\ (Called /\ call.function \notin KnownFunctions) =>
       /\ call.status = asynError
       /\ call.bus = << >>
       /\ LibraryUntouched
  /\ (Called /\ ~ReadOnlyWrite /\ call.addrIn > maxAddr - 1) =>
       /\ call.status = asynError
       /\ call.status = call.ga
       /\ call.bus = << >>
       /\ LibraryUntouched

\* A write with a reason beyond the created parameters on a valid channel,
\* with the parameter library filled by an earlier call.
C7_Witness ==
  /\ call.entry = "writeFloat64"
  /\ call.function = NumParams
  /\ call.addrIn = 0
  /\ call.status = asynError
  /\ tblAtEntry.tbl # EmptyTbl

====
